---- MODULE Spec2Model ----
(***************************************************************************)
(* WebGLRenderer (src/src/WebGLRenderer.js): the command interpreter       *)
(* (receive), the draw emitter (draw) and the attribute/draw binder        *)
(* (drawBuffers), with the device binding cache this.state.                *)
(*                                                                         *)
(* JavaScript values are tagged records (tokens) so that a queue can hold  *)
(* commands, names, numbers, arrays and handles side by side.  Arrays are  *)
(* references into a heap, because receive stores the caller's objects and *)
(* writes into them in place; the heap holds the arrays receive reads or   *)
(* writes, the others are passed on unread.  Objects that are iterated     *)
(* with for-in keep their keys in insertion order.                         *)
(***************************************************************************)
EXTENDS Integers, Sequences, FiniteSets, TLC

VARIABLES
    meshRegistry,    \* this.meshRegistry: path -> mesh
    lightRegistry,   \* this.lightRegistry: path -> light
    bufferRegistry,  \* this.bufferRegistry.registry: geometry id -> Buffer Set
    attributeLocations, \* this.program.attributeLocations
    state,           \* this.state, the device binding cache
    heap,            \* the array objects reachable from the renderer
    gl,              \* the device: enabled attribute arrays and buffer bindings
    commands,        \* the shared queue, as the latest receive call left it
    pc,              \* "idle", or "returned" right after a handler has run
    ran,             \* what the handler that just ran was given and how it ended;
                     \* for a frame, where its loop stopped (reached) and the
                     \* node the frame before it had stopped at (resumes)
    log,             \* the collaborator and device calls of the handler that just ran
    calls,           \* the drawBuffers calls of the frame that just ran, in order
    drawnBefore,     \* the id of the latest drawBuffers call of all frames so far
    abortedAt        \* the node at which the latest frame stopped for missing
                     \* geometry, "" when it did not or geometry was reassigned since

vars == <<meshRegistry, lightRegistry, bufferRegistry, attributeLocations, state,
          heap, gl, commands, pc, ran, log, calls, drawnBefore, abortedAt>>

-----------------------------------------------------------------------------
(* JavaScript values *)

Str(s) == [k |-> "str", s |-> s, n |-> 0]
Num(n) == [k |-> "num", s |-> "", n |-> n]
\* the number 0.5: a number token whose s field carries the fraction
Half == [k |-> "num", s |-> "1/2", n |-> 0]
Bool(b) == [k |-> "bool", s |-> "", n |-> IF b THEN 1 ELSE 0]
\* an array object; s and n together name it
Ref(s, n) == [k |-> "ref", s |-> s, n |-> n]
\* a material handle with its _id
Mat(id) == [k |-> "mat", s |-> "", n |-> id]
\* raw vertex or index data of n numbers
Data(n) == [k |-> "data", s |-> "", n |-> n]
Undefined == [k |-> "undefined", s |-> "", n |-> 0]
Null == [k |-> "null", s |-> "", n |-> 0]
NaN == [k |-> "nan", s |-> "", n |-> 0]

\* an object whose keys are iterated in insertion order
EmptyObj == [keys |-> <<>>, at |-> <<>>]
Has(o, key) == key \in DOMAIN o.at
Put(o, key, v) ==
    [keys |-> IF Has(o, key) THEN o.keys ELSE Append(o.keys, key),
     at   |-> (key :> v) @@ o.at]

\* Array.prototype.indexOf, zero-based, -1 when absent
IndexOf(seq, x) ==
    IF \E i \in 1..Len(seq) : seq[i] = x
    THEN (CHOOSE i \in 1..Len(seq) : seq[i] = x /\ \A h \in 1..(i - 1) : seq[h] # x) - 1
    ELSE -1

\* Array.prototype.shift: the removed head, undefined on an empty array
Shifted(q) == IF q = <<>> THEN Undefined ELSE Head(q)
Rest(q) == IF q = <<>> THEN <<>> ELSE Tail(q)
RestN(q, n) == IF Len(q) <= n THEN <<>> ELSE SubSeq(q, n + 1, Len(q))
Arg(q, i) == IF Len(q) >= i THEN q[i] ELSE Undefined

\* v[i] for a value v: an element of an array, undefined beyond it or on a primitive
Elem(h, v, i) ==
    IF v.k = "ref" /\ i < Len(h[v]) THEN h[v][i + 1] ELSE Undefined
\* v[i] throws a TypeError when v is undefined or null
Unindexable(v) == v.k \in {"undefined", "null"}

-----------------------------------------------------------------------------
(* module-level values *)

INDICES == Str("indices")
\* var identity (line 26), shared by every mesh
IdentityRef == Ref("identity", 0)

\* the mesh created on first reference (lines 96-102); its three vectors are
\* new arrays, of which receive writes the baseColor one
NewMesh(p) ==
    [uniformKeys   |-> <<Str("opacity"), Str("transform"), Str("size"),
                         Str("origin"), Str("baseColor")>>,
     uniformValues |-> <<Num(1), IdentityRef, Ref(p, 2), Ref(p, 3), Ref(p, 4)>>,
     geometry      |-> Null,
     drawType      |-> Null,
     dynamic       |-> Undefined]
NewMeshArrays(p) == Ref(p, 4) :> <<Half, Half, Half>>

\* the light created by GL_CREATE_LIGHT (lines 117-120)
NewLight ==
    [color    |-> <<Num(1), Num(1), Num(1)>>,
     position |-> <<Num(0), Num(0), Num(100)>>]

\* this.state after construction (lines 68-73)
NewState ==
    [boundArrayBuffer   |-> Null,
     boundElementBuffer |-> Null,
     lastDrawn          |-> Null,
     enabledAttributes  |-> EmptyObj]

-----------------------------------------------------------------------------
(* bounds of the model *)

\* the scene holds at most MaxBuffers attribute buffers
MaxBuffers == 2
\* a queue of generic uniforms carries at most MaxQueue instructions
MaxQueue == 3
\* a queue of mixed instructions carries at most MaxStream instructions
MaxStream == 3
\* a queue of supported instructions of every kind carries at most MaxPair
MaxPair == 2

-----------------------------------------------------------------------------
(* collaborators: Buffer, BufferRegistry, Program, the container *)

\* the device buffer object the registry holds for attribute name of geometry g
BufferOf(g, name) == [k |-> "buffer", s |-> name.s, n |-> g.n]
\* buffer.target: index data goes to the element array target
Target(buffer) ==
    IF buffer.s = INDICES.s THEN "ELEMENT_ARRAY_BUFFER" ELSE "ARRAY_BUFFER"

\* a Buffer Set: parallel arrays keys, values, spacing, offset, length
EmptyBufferSet ==
    [keys |-> <<>>, values |-> <<>>, spacing |-> <<>>, offset |-> <<>>, length |-> <<>>]

\* the number of elements in data: indices one by one, vertices by spacing
ElementCount(name, data, spacing) ==
    IF name = INDICES THEN data.n ELSE data.n \div spacing.n

\* BufferRegistry.allocate: create or replace the entry name of geometryId's
\* Buffer Set; off is the offset the registry gives the data in its buffer
Allocate(reg, geometryId, name, data, spacing, dynamic, off) ==
    IF ~(name.k = "str" /\ data.k = "data" /\ spacing.k = "num" /\ spacing.n > 0)
    THEN reg
    ELSE LET vb == IF geometryId \in DOMAIN reg THEN reg[geometryId] ELSE EmptyBufferSet
             i  == IndexOf(vb.keys, name)
             nb == IF i = -1
                   THEN [keys    |-> Append(vb.keys, name),
                         values  |-> Append(vb.values, BufferOf(geometryId, name)),
                         spacing |-> Append(vb.spacing, spacing.n),
                         offset  |-> Append(vb.offset, off),
                         length  |-> Append(vb.length, ElementCount(name, data, spacing))]
                   ELSE [vb EXCEPT !.spacing[i + 1] = spacing.n,
                                   !.offset[i + 1]  = off,
                                   !.length[i + 1]  = ElementCount(name, data, spacing)]
         IN  (geometryId :> nb) @@ reg

\* this.bufferRegistry.registry[id], undefined when the geometry has no Buffer Set
Lookup(reg, id) == IF id \in DOMAIN reg THEN reg[id] ELSE Undefined

\* a call on a collaborator or on the device, as the log records it
LogCall(fn) ==
    [fn |-> fn, loc |-> 0, buf |-> Null, size |-> 0, off |-> 0, mode |-> Null,
     keys |-> <<>>, vals |-> <<>>]
SetUniforms(keys, vals) == [LogCall("setUniforms") EXCEPT !.keys = keys, !.vals = vals]

\* updateSize (lines 407-424): viewport, then the resolution uniform
UpdateSize ==
    <<LogCall("viewport"),
      SetUniforms(<<Str("resolution")>>, <<Str("cachedSize")>>)>>

-----------------------------------------------------------------------------
(* receive (lines 91-181) *)

(* The interpreter works on r: the registries, the heap, the queue, the    *)
(* calls made so far, whether the loop is still running, returned or threw,*)
(* and how many passes of the loop and how many allocations there were.    *)

\* the local variables mesh and light of the call for path p; light is
\* this.lightRegistry[p] throughout, as line 117 assigns both
MeshOf(r, p) == r.meshRegistry.at[p]
LightOf(r, p) == IF Has(r.lightRegistry, p) THEN r.lightRegistry.at[p] ELSE Undefined
Throw(r) == [r EXCEPT !.status = "threw"]

\* lines 116-121
CreateLight(r, p) ==
    [r EXCEPT !.commands = Rest(@),
              !.lightRegistry = Put(@, p, NewLight)]

\* the position given to a new light in place of the node's light
LightPositionNewLight(r, p) ==
    LET transform == Arg(r.commands, 2)
        shifted   == [r EXCEPT !.commands = RestN(@, 2)]
    IN  IF LightOf(r, p) = Undefined \/ Unindexable(transform)
        THEN Throw(shifted)
        ELSE [shifted EXCEPT !.lightRegistry.at[p] =
                [NewLight EXCEPT !.position =
                    <<Elem(r.heap, transform, 12), Elem(r.heap, transform, 13),
                      Elem(r.heap, transform, 14)>>]]

\* lines 123-128; light.position throws when the node has no light
LightPosition(r, p) ==
    LET transform == Arg(r.commands, 2)
        shifted   == [r EXCEPT !.commands = RestN(@, 2)]
    IN  IF LightOf(r, p) = Undefined \/ Unindexable(transform)
        THEN Throw(shifted)
        ELSE [shifted EXCEPT !.lightRegistry.at[p].position =
                <<Elem(r.heap, transform, 12), Elem(r.heap, transform, 13),
                  Elem(r.heap, transform, 14)>>]

\* lines 130-135
LightColor(r, p) ==
    LET color   == Arg(r.commands, 2)
        shifted == [r EXCEPT !.commands = RestN(@, 2)]
    IN  IF LightOf(r, p) = Undefined \/ Unindexable(color)
        THEN Throw(shifted)
        ELSE [shifted EXCEPT !.lightRegistry.at[p].color =
                <<Elem(r.heap, color, 0), Elem(r.heap, color, 1),
                  Elem(r.heap, color, 2)>>]

\* -mat._id
Sentinel(mat) == IF mat.k = "mat" THEN Num(-mat.n) ELSE NaN
\* h after target[0] = v, for an array target
WriteFirst(h, target, v) ==
    [h EXCEPT ![target] = IF h[target] = <<>> THEN <<v>> ELSE [h[target] EXCEPT ![1] = v]]

\* lines 137-143: the sentinel is written into the array held in slot 4;
\* under 'use strict' the write throws when slot 4 holds a primitive
MaterialInput(r, p) ==
    LET name    == Arg(r.commands, 2)
        mat     == Arg(r.commands, 3)
        target  == MeshOf(r, p).uniformValues[5]
        shifted == [r EXCEPT !.commands = RestN(@, 3)]
    IN  IF target.k \notin {"ref", "mat", "data", "buffer"} \/ Unindexable(mat)
        THEN Throw(shifted)
        ELSE [shifted EXCEPT
                !.heap = IF target.k = "ref"
                         THEN WriteFirst(@, target, Sentinel(mat))
                         ELSE @,
                !.log = @ \o <<[LogCall("registerMaterial") EXCEPT
                                  !.keys = <<name>>, !.vals = <<mat>>]>>
                          \o UpdateSize]

\* the literal pushed under its name in place of the write to slot 4
UniformInputPushed(r, p) ==
    [r EXCEPT !.commands = RestN(@, 3),
              !.meshRegistry.at[p].uniformKeys   = Append(@, Arg(r.commands, 2)),
              !.meshRegistry.at[p].uniformValues = Append(@, Arg(r.commands, 3))]

\* lines 145-149
UniformInput(r, p) ==
    [r EXCEPT !.commands = RestN(@, 3),
              !.meshRegistry.at[p].uniformValues[5] = Arg(r.commands, 3)]

\* set-geometry taking two arguments and leaving the dynamic flag in the queue
SetGeometryPair(r, p) ==
    [r EXCEPT !.commands = RestN(@, 3),
              !.meshRegistry.at[p].geometry = Arg(r.commands, 2),
              !.meshRegistry.at[p].drawType = Arg(r.commands, 3)]

\* lines 151-155
SetGeometry(r, p) ==
    [r EXCEPT !.commands = RestN(@, 4),
              !.meshRegistry.at[p].geometry = Arg(r.commands, 2),
              !.meshRegistry.at[p].drawType = Arg(r.commands, 3),
              !.meshRegistry.at[p].dynamic  = Arg(r.commands, 4)]

\* the pair appended whether or not the name is known
SetUniformAppend(mesh, uniformName, uniformValue) ==
    [mesh EXCEPT !.uniformKeys   = Append(@, uniformName),
                 !.uniformValues = Append(@, uniformValue)]

\* lines 160-166: append the pair, or replace the value at the name's index
SetUniform(mesh, uniformName, uniformValue) ==
    LET index == IndexOf(mesh.uniformKeys, uniformName)
    IN  IF index = -1
        THEN [mesh EXCEPT !.uniformKeys   = Append(@, uniformName),
                          !.uniformValues = Append(@, uniformValue)]
        ELSE [mesh EXCEPT !.uniformValues[index + 1] = uniformValue]

\* lines 157-167
Uniforms(r, p) ==
    [r EXCEPT !.commands = RestN(@, 3),
              !.meshRegistry.at[p] =
                  SetUniform(@, Arg(r.commands, 2), Arg(r.commands, 3))]

\* lines 169-176; offs[n] is the offset the registry gives the call's n-th allocation
BufferData(r, p, offs) ==
    LET geometryId    == Arg(r.commands, 2)
        bufferName    == Arg(r.commands, 3)
        bufferValue   == Arg(r.commands, 4)
        bufferSpacing == Arg(r.commands, 5)
        dynamic       == MeshOf(r, p).dynamic
    IN  [r EXCEPT
           !.commands = RestN(@, 5),
           !.allocs = @ + 1,
           !.bufferRegistry = Allocate(@, geometryId, bufferName, bufferValue,
                                       bufferSpacing, dynamic, offs[r.allocs + 1]),
           !.log = Append(@, [LogCall("allocate") EXCEPT
                     !.keys = <<geometryId, bufferName, bufferValue, bufferSpacing,
                                dynamic>>])]

\* the foreign command dropped and the loop going on
WithDropped(r) == [r EXCEPT !.commands = Rest(@)]

\* line 178: the foreign command is put back and receive returns
With(r) ==
    [r EXCEPT !.commands = <<Shifted(r.commands)>> \o Rest(r.commands),
              !.status = "returned"]

\* a switch whose default case fails
DispatchStrict(r, p, offs) ==
    LET command == Shifted(r.commands)
    IN  CASE command = Str("GL_CREATE_LIGHT")   -> CreateLight(r, p)
          [] command = Str("GL_LIGHT_POSITION") -> LightPosition(r, p)
          [] command = Str("GL_LIGHT_COLOR")    -> LightColor(r, p)
          [] command = Str("MATERIAL_INPUT")    -> MaterialInput(r, p)
          [] command = Str("UNIFORM_INPUT")     -> UniformInput(r, p)
          [] command = Str("GL_SET_GEOMETRY")   -> SetGeometry(r, p)
          [] command = Str("GL_UNIFORMS")       -> Uniforms(r, p)
          [] command = Str("GL_BUFFER_DATA")    -> BufferData(r, p, offs)
          [] command = Str("WITH")              -> With(r)
          [] OTHER -> Throw([r EXCEPT !.commands = Rest(@)])

\* lines 112-179, one pass of the loop: shift the command and switch on it;
\* a command no case matches is dropped
Dispatch(r, p, offs) ==
    LET command == Shifted(r.commands)
    IN  CASE command = Str("GL_CREATE_LIGHT")   -> CreateLight(r, p)
          [] command = Str("GL_LIGHT_POSITION") -> LightPosition(r, p)
          [] command = Str("GL_LIGHT_COLOR")    -> LightColor(r, p)
          [] command = Str("MATERIAL_INPUT")    -> MaterialInput(r, p)
          [] command = Str("UNIFORM_INPUT")     -> UniformInput(r, p)
          [] command = Str("GL_SET_GEOMETRY")   -> SetGeometry(r, p)
          [] command = Str("GL_UNIFORMS")       -> Uniforms(r, p)
          [] command = Str("GL_BUFFER_DATA")    -> BufferData(r, p, offs)
          [] command = Str("WITH")              -> With(r)
          [] OTHER -> [r EXCEPT !.commands = Rest(@)]

\* lines 111-181: the loop runs while the queue is not empty
RECURSIVE Interpret(_, _, _)
Interpret(r, p, offs) ==
    IF r.status # "running"
    THEN r
    ELSE IF r.commands = <<>>
    THEN [r EXCEPT !.status = "returned"]
    ELSE Interpret(Dispatch([r EXCEPT !.steps = @ + 1], p, offs), p, offs)

\* lines 92-103: look the mesh up, create it on first reference
Enter(p, q) ==
    [meshRegistry   |-> IF Has(meshRegistry, p) THEN meshRegistry
                        ELSE Put(meshRegistry, p, NewMesh(p)),
     lightRegistry  |-> lightRegistry,
     bufferRegistry |-> bufferRegistry,
     heap           |-> IF Has(meshRegistry, p) THEN heap ELSE NewMeshArrays(p) @@ heap,
     commands       |-> q,
     log            |-> <<>>,
     status         |-> "running",
     steps          |-> 0,
     allocs         |-> 0]

\* set-geometry may change which Buffer Set an earlier node needs
Reassigns(q) == \E i \in 1..Len(q) : q[i] = Str("GL_SET_GEOMETRY")

\* the handler: receive(p, q) from its first line to its return or throw;
\* offsets are the offsets the registry may give the data it allocates
Receive(p, q, offsets) ==
    /\ pc = "idle"
    /\ \E offs \in [1..(Len(q) \div 5) -> offsets] :
         LET r == Interpret(Enter(p, q), p, offs)
         IN  /\ meshRegistry' = r.meshRegistry
             /\ lightRegistry' = r.lightRegistry
             /\ bufferRegistry' = r.bufferRegistry
             /\ heap' = r.heap
             /\ commands' = r.commands
             /\ log' = r.log
             /\ ran' = [handler |-> "receive",
                        path    |-> p,
                        sent    |-> q,
                        fresh   |-> ~Has(meshRegistry, p),
                        threw   |-> r.status = "threw",
                        steps   |-> r.steps,
                        reached |-> 0,
                        resumes |-> ""]
    /\ pc' = "returned"
    /\ calls' = <<>>
    /\ abortedAt' = IF Reassigns(q) THEN "" ELSE abortedAt
    /\ UNCHANGED <<attributeLocations, state, gl, drawnBefore>>

-----------------------------------------------------------------------------
(* the device *)

\* the context after construction, as far as drawBuffers touches it: the
\* enabled attribute arrays, the buffer bound to each target, and for each
\* location the buffer, size and byte offset it reads vertices from
NewDevice ==
    [enabled              |-> {},
     ARRAY_BUFFER         |-> Null,
     ELEMENT_ARRAY_BUFFER |-> Null,
     pointers             |-> <<>>]

EnableVertexAttribArray(location) ==
    [LogCall("enableVertexAttribArray") EXCEPT !.loc = location]
DisableVertexAttribArray(location) ==
    [LogCall("disableVertexAttribArray") EXCEPT !.loc = location]
BindBuffer(buffer) == [LogCall("bindBuffer") EXCEPT !.buf = buffer]
VertexAttribPointer(location, spacing, byteOffset) ==
    [LogCall("vertexAttribPointer") EXCEPT !.loc = location, !.size = spacing,
                                           !.off = byteOffset]
DrawElements(mode, count, byteOffset) ==
    [LogCall("drawElements") EXCEPT !.mode = mode, !.size = count, !.off = byteOffset]
DrawArrays(mode, first, count) ==
    [LogCall("drawArrays") EXCEPT !.mode = mode, !.off = first, !.size = count]

\* what a call does to the device
Perform(dev, c) ==
    CASE c.fn = "enableVertexAttribArray"  -> [dev EXCEPT !.enabled = @ \cup {c.loc}]
      [] c.fn = "disableVertexAttribArray" -> [dev EXCEPT !.enabled = @ \ {c.loc}]
      [] c.fn = "bindBuffer" ->
            IF Target(c.buf) = "ARRAY_BUFFER"
            THEN [dev EXCEPT !.ARRAY_BUFFER = c.buf]
            ELSE [dev EXCEPT !.ELEMENT_ARRAY_BUFFER = c.buf]
      [] c.fn = "vertexAttribPointer" ->
            [dev EXCEPT !.pointers =
                (c.loc :> [buf |-> dev.ARRAY_BUFFER, size |-> c.size, off |-> c.off]) @@ @]
      [] OTHER -> dev

RECURSIVE PerformAll(_, _)
PerformAll(dev, cs) ==
    IF cs = <<>> THEN dev ELSE PerformAll(Perform(dev, Head(cs)), Tail(cs))

-----------------------------------------------------------------------------
(* drawBuffers (lines 218-308) *)

\* lines 231-271, one pass of the loop over vertexBuffers.keys; acc carries
\* this.state, the location cache, length, j and the device calls so far;
\* shader answers gl.getAttribLocation
BindAttribute(vertexBuffers, i, id, acc, shader) ==
    LET attribute == vertexBuffers.keys[i + 1]
        known     == attribute \in DOMAIN acc.locs
        location  == IF known THEN acc.locs[attribute] ELSE shader[attribute]
        locs      == IF known THEN acc.locs ELSE (attribute :> location) @@ acc.locs
        enabled   == /\ Has(acc.state.enabledAttributes, attribute)
                     /\ acc.state.enabledAttributes.at[attribute]
        buffer    == vertexBuffers.values[i + 1]
        spacing   == vertexBuffers.spacing[i + 1]
        offset    == vertexBuffers.offset[i + 1]
        bound     == acc.state.boundArrayBuffer = buffer
    IN  IF attribute = INDICES
        THEN [acc EXCEPT !.j = i]
        ELSE IF location = -1
        THEN [acc EXCEPT !.locs = locs]
        ELSE [state  |-> [acc.state EXCEPT
                            !.enabledAttributes =
                                IF enabled THEN @ ELSE Put(@, attribute, TRUE),
                            !.boundArrayBuffer = buffer],
              locs   |-> locs,
              length |-> vertexBuffers.length[i + 1],
              j      |-> acc.j,
              calls  |-> acc.calls
                         \o (IF enabled THEN <<>> ELSE <<EnableVertexAttribArray(location)>>)
                         \o (IF bound THEN <<>> ELSE <<BindBuffer(buffer)>>)
                         \o (IF acc.state.lastDrawn # id
                             THEN <<VertexAttribPointer(location, spacing, 4 * offset)>>
                             ELSE <<>>)]

\* lines 229-272
RECURSIVE BindAttributes(_, _, _, _, _)
BindAttributes(vertexBuffers, i, id, acc, shader) ==
    IF i >= Len(vertexBuffers.keys)
    THEN acc
    ELSE BindAttributes(vertexBuffers, i + 1, id,
                        BindAttribute(vertexBuffers, i, id, acc, shader), shader)

\* the disable pass left out
DisableNothing(vertexBuffers, acc) == acc

\* lines 276-281: the enabled attributes that are not among vertexBuffers.keys
Unused(vertexBuffers, enabledAttributes) ==
    SelectSeq(enabledAttributes.keys,
              LAMBDA a : enabledAttributes.at[a] /\ IndexOf(vertexBuffers.keys, a) = -1)

DisableUnused(vertexBuffers, acc) ==
    LET unused == Unused(vertexBuffers, acc.state.enabledAttributes)
    IN  [acc EXCEPT
           !.state.enabledAttributes.at =
               [a \in DOMAIN @ |->
                  IF \E u \in 1..Len(unused) : unused[u] = a THEN FALSE ELSE @[a]],
           !.calls = @ \o [u \in 1..Len(unused) |->
                              DisableVertexAttribArray(acc.locs[unused[u]])]]

\* the index buffer bound on every indexed draw, the cache never told
IssueDrawUncached(vertexBuffers, mode, acc) ==
    IF acc.length = 0
    THEN acc
    ELSE IF acc.j # -1
    THEN [acc EXCEPT
            !.calls = @ \o <<BindBuffer(vertexBuffers.values[acc.j + 1]),
                             DrawElements(mode, vertexBuffers.length[acc.j + 1],
                                          2 * vertexBuffers.offset[acc.j + 1])>>]
    ELSE [acc EXCEPT !.calls = @ \o <<DrawArrays(mode, 0, acc.length)>>]

\* lines 283-305
IssueDraw(vertexBuffers, mode, acc) ==
    IF acc.length = 0
    THEN acc
    ELSE IF acc.j # -1
    THEN LET buffer == vertexBuffers.values[acc.j + 1]
             offset == vertexBuffers.offset[acc.j + 1]
             length == vertexBuffers.length[acc.j + 1]
             bound  == acc.state.boundElementBuffer = buffer
         IN  [acc EXCEPT
                !.state.boundElementBuffer = buffer,
                !.calls = @ \o (IF bound THEN <<>> ELSE <<BindBuffer(buffer)>>)
                            \o <<DrawElements(mode, length, 2 * offset)>>]
    ELSE [acc EXCEPT !.calls = @ \o <<DrawArrays(mode, 0, acc.length)>>]

\* lastDrawn updated only by a call that drew
DrawBuffersDrawnOnly(vertexBuffers, mode, id, st, locations, shader) ==
    LET start == [state |-> st, locs |-> locations, length |-> 0, j |-> -1,
                  calls |-> <<>>]
        bound == BindAttributes(vertexBuffers, 0, id, start, shader)
        drawn == IssueDraw(vertexBuffers, mode, DisableUnused(vertexBuffers, bound))
    IN  [state |-> IF drawn.length = 0 THEN drawn.state
                   ELSE [drawn.state EXCEPT !.lastDrawn = id],
         locs  |-> drawn.locs,
         calls |-> drawn.calls]

\* the whole call: the new this.state, the new location cache and the device calls
DrawBuffers(vertexBuffers, mode, id, st, locations, shader) ==
    LET start == [state |-> st, locs |-> locations, length |-> 0, j |-> -1,
                  calls |-> <<>>]
        bound == BindAttributes(vertexBuffers, 0, id, start, shader)
        drawn == IssueDraw(vertexBuffers, mode, DisableUnused(vertexBuffers, bound))
    IN  [state |-> [drawn.state EXCEPT !.lastDrawn = id],
         locs  |-> drawn.locs,
         calls |-> drawn.calls]

-----------------------------------------------------------------------------
(* draw (lines 183-206) *)

\* this.projectionTransform (line 78)
ProjectionRef == Ref("projectionTransform", 0)

\* lines 189-193: both uniforms of every light, in registry order
LightUniforms ==
    LET upload(l) ==
          <<SetUniforms(<<Str("u_LightPosition")>>, <<lightRegistry.at[l].position>>),
            SetUniforms(<<Str("u_LightColor")>>, <<lightRegistry.at[l].color>>)>>
        Up[i \in 0..Len(lightRegistry.keys)] ==
          IF i = 0 THEN <<>> ELSE Up[i - 1] \o upload(lightRegistry.keys[i])
    IN  Up[Len(lightRegistry.keys)]

\* the attributes a shader program may declare, and where it puts them
VertexAttributes == {Str("pos"), Str("normal")}
Location(a) == IF a = Str("pos") THEN 0 ELSE 1
\* gl.getAttribLocation for the linked program: -1 for an attribute it lacks
Shaders ==
    {[a \in VertexAttributes |-> IF a \in active THEN Location(a) ELSE -1] :
        active \in SUBSET VertexAttributes}

\* a mesh at which a frame stopped stays without geometry
StillMissing(mesh) ==
    \/ Lookup(bufferRegistry, mesh.geometry) = Undefined
    \/ abortedAt # "" /\ mesh = meshRegistry.at[abortedAt]

\* line 201: the mesh's geometry has no Buffer Set
Missing(mesh) == Lookup(bufferRegistry, mesh.geometry) = Undefined

\* lines 203-204 for the mesh at key: f is the frame so far
EmitMesh(f, key, shader) ==
    LET mesh    == meshRegistry.at[key]
        buffers == Lookup(bufferRegistry, mesh.geometry)
        r       == DrawBuffers(buffers, mesh.drawType, mesh.geometry, f.state,
                               f.locs, shader)
    IN  [state   |-> r.state,
         locs    |-> r.locs,
         gl      |-> PerformAll(f.gl, r.calls),
         log     |-> f.log \o <<SetUniforms(mesh.uniformKeys, mesh.uniformValues)>>
                           \o r.calls,
         calls   |-> Append(f.calls, [node    |-> key,
                                      id      |-> mesh.geometry,
                                      mode    |-> mesh.drawType,
                                      buffers |-> buffers,
                                      prev    |-> f.last,
                                      before  |-> f.state,
                                      device  |-> f.gl,
                                      after   |-> r.state,
                                      issued  |-> r.calls]),
         last    |-> mesh.geometry,
         aborted |-> "",
         reached |-> f.reached]

\* the loop going on to the next mesh where line 201 returns
RECURSIVE EmitMeshesSkipping(_, _, _)
EmitMeshesSkipping(f, i, shader) ==
    IF i > Len(meshRegistry.keys)
    THEN [f EXCEPT !.reached = IF f.aborted = "" THEN i ELSE @]
    ELSE IF Missing(meshRegistry.at[meshRegistry.keys[i]])
    THEN EmitMeshesSkipping([f EXCEPT !.reached = IF f.aborted = "" THEN i ELSE @,
                                      !.aborted = IF @ = "" THEN meshRegistry.keys[i]
                                                  ELSE @],
                            i + 1, shader)
    ELSE EmitMeshesSkipping([EmitMesh(f, meshRegistry.keys[i], shader)
                                EXCEPT !.aborted = f.aborted],
                            i + 1, shader)

\* the loop emitting each mesh a second time
RECURSIVE EmitMeshesTwice(_, _, _)
EmitMeshesTwice(f, i, shader) ==
    IF i > Len(meshRegistry.keys)
    THEN [f EXCEPT !.reached = i]
    ELSE IF Missing(meshRegistry.at[meshRegistry.keys[i]])
    THEN [f EXCEPT !.reached = i, !.aborted = meshRegistry.keys[i]]
    ELSE EmitMeshesTwice(EmitMesh(EmitMesh(f, meshRegistry.keys[i], shader),
                                  meshRegistry.keys[i], shader),
                         i + 1, shader)

\* lines 197-205: the loop over this.meshRegistry from its i-th key on; it
\* returns at the first mesh whose geometry has no Buffer Set
RECURSIVE EmitMeshes(_, _, _)
EmitMeshes(f, i, shader) ==
    IF i > Len(meshRegistry.keys)
    THEN [f EXCEPT !.reached = i]
    ELSE IF Missing(meshRegistry.at[meshRegistry.keys[i]])
    THEN [f EXCEPT !.reached = i, !.aborted = meshRegistry.keys[i]]
    ELSE EmitMeshes(EmitMesh(f, meshRegistry.keys[i], shader), i + 1, shader)

\* the handler: draw() from its first line to its return
Draw ==
    /\ pc = "idle"
    /\ \E shader \in Shaders :
         LET start == [state   |-> state,
                       locs    |-> attributeLocations,
                       gl      |-> gl,
                       log     |-> LightUniforms \o
                                   <<SetUniforms(<<Str("perspective")>>, <<ProjectionRef>>)>>,
                       calls   |-> <<>>,
                       last    |-> drawnBefore,
                       aborted |-> "",
                       reached |-> 0]
             f == EmitMeshes(start, 1, shader)
         IN  /\ state' = f.state
             /\ attributeLocations' = f.locs
             /\ gl' = f.gl
             /\ log' = f.log
             /\ calls' = f.calls
             /\ drawnBefore' = f.last
             /\ abortedAt' = f.aborted
             /\ ran' = [handler |-> "draw",
                        path    |-> "",
                        sent    |-> <<>>,
                        fresh   |-> FALSE,
                        threw   |-> FALSE,
                        steps   |-> 0,
                        reached |-> f.reached,
                        resumes |-> abortedAt]
    /\ pc' = "returned"
    /\ UNCHANGED <<meshRegistry, lightRegistry, bufferRegistry, heap, commands>>

\* nothing has run
NotRun ==
    [handler |-> "none", path |-> "", sent |-> <<>>, fresh |-> FALSE,
     threw |-> FALSE, steps |-> 0, reached |-> 0, resumes |-> ""]

\* the caller has control again; what was recorded about the handler is dropped
Idle ==
    /\ pc = "returned"
    /\ pc' = "idle"
    /\ ran' = NotRun
    /\ commands' = <<>>
    /\ log' = <<>>
    /\ calls' = <<>>
    /\ UNCHANGED <<meshRegistry, lightRegistry, bufferRegistry, attributeLocations,
                   state, heap, gl, drawnBefore, abortedAt>>

-----------------------------------------------------------------------------
(* the renderer after construction (lines 39-79), and the producer's arrays *)

\* arrays the producer of the command stream owns and passes as arguments:
\* two colours and a transform whose translation is (7, 8, 9)
Vector1 == Ref("v1", 0)
Vector2 == Ref("v2", 0)
Transform1 == Ref("t1", 0)
ProducerArrays ==
    (Vector1 :> <<Num(1), Num(0), Num(0)>>) @@
    (Vector2 :> <<Num(0), Num(1), Num(1)>>) @@
    (Transform1 :> <<Num(1), Num(0), Num(0), Num(0), Num(0), Num(1), Num(0), Num(0),
                     Num(0), Num(0), Num(1), Num(0), Num(7), Num(8), Num(9), Num(1)>>)

\* the renderer as constructed, with the producer holding arrays
InitWith(arrays) ==
    /\ meshRegistry = EmptyObj
    /\ lightRegistry = EmptyObj
    /\ bufferRegistry = <<>>
    /\ attributeLocations = <<>>
    /\ state = NewState
    /\ heap = arrays
    /\ gl = NewDevice
    /\ commands = <<>>
    /\ pc = "idle"
    /\ ran = NotRun
    /\ log = <<>>
    /\ calls = <<>>
    /\ drawnBefore = Null
    /\ abortedAt = ""

Init == InitWith(ProducerArrays)
\* a producer that sends geometry only holds no arrays
InitGeometry == InitWith(<<>>)

-----------------------------------------------------------------------------
(* command streams *)

CreateLightCmd == <<Str("GL_CREATE_LIGHT")>>
LightPositionCmd(t) == <<Str("GL_LIGHT_POSITION"), t>>
LightColorCmd(c) == <<Str("GL_LIGHT_COLOR"), c>>
MaterialInputCmd(name, mat) == <<Str("MATERIAL_INPUT"), name, mat>>
UniformInputCmd(name, v) == <<Str("UNIFORM_INPUT"), name, v>>
SetGeometryCmd(g, mode, dynamic) == <<Str("GL_SET_GEOMETRY"), g, mode, dynamic>>
UniformsCmd(name, v) == <<Str("GL_UNIFORMS"), name, v>>
BufferDataCmd(g, name, data, spacing) == <<Str("GL_BUFFER_DATA"), g, name, data, spacing>>

GeometryIds == {Num(1), Num(2)}
TRIANGLES == Num(4)

\* the number of attribute buffers the registry holds
RECURSIVE Entries(_)
Entries(reg) ==
    IF DOMAIN reg = {} THEN 0
    ELSE LET g == CHOOSE g \in DOMAIN reg : TRUE
         IN  Len(reg[g].keys) + Entries([h \in DOMAIN reg \ {g} |-> reg[h]])

\* q would add an attribute buffer to the registry
AddsBuffer(q) ==
    /\ q # <<>> /\ Head(q) = Str("GL_BUFFER_DATA")
    /\ Lookup(bufferRegistry, q[2]) # Undefined => IndexOf(bufferRegistry[q[2]].keys, q[3]) = -1

\* the producer hands path p the queue q, within the bounds of the scene
Send(paths, queues, offsets) ==
    \E p \in paths, q \in queues :
        /\ AddsBuffer(q) => Entries(bufferRegistry) < MaxBuffers
        /\ Receive(p, q, offsets)

\* geometry for one node: set-geometry and buffer data, one instruction a call
GeometryQueues(ids) ==
    {SetGeometryCmd(g, TRIANGLES, Bool(FALSE)) : g \in ids}
    \cup {BufferDataCmd(g, name, Data(n), Num(3)) :
            g \in ids, name \in VertexAttributes, n \in {0, 6}}
    \cup {BufferDataCmd(g, INDICES, Data(n), Num(1)) : g \in ids, n \in {0, 6}}

(* One node that is given either of two geometries, and frames in between. *)
(* drawBuffers passes an offset on to the device and never branches on it, *)
(* so the registry places all data at offset 0 here.                       *)
NextBind ==
    \/ Send({"a"}, GeometryQueues(GeometryIds), {0})
    \/ Draw
    \/ Idle

SpecBind == InitGeometry /\ [][NextBind]_vars

(* One node with one geometry whose data the registry places at offset 0   *)
(* or 1 of its buffers.                                                    *)
NextOffsets ==
    \/ Send({"a"}, GeometryQueues({Num(1)}), {0, 1})
    \/ Draw
    \/ Idle

SpecOffsets == InitGeometry /\ [][NextOffsets]_vars

\* the queues of at most n instructions, each one of instrs
RECURSIVE Streams(_, _)
Streams(instrs, n) ==
    IF n = 0 THEN {<<>>}
    ELSE LET shorter == Streams(instrs, n - 1)
         IN  shorter \cup {q \o i : q \in shorter, i \in instrs}

Paths == {"a", "b", "c"}

\* geometry assignment and vertex data for a scene of three nodes
FrameQueues ==
    {SetGeometryCmd(g, TRIANGLES, Bool(FALSE)) : g \in GeometryIds}
    \cup {BufferDataCmd(g, Str("pos"), Data(6), Num(3)) : g \in GeometryIds}

(* Three nodes, each a mesh of either geometry whose vertex data arrives    *)
(* before or after the frames that need it; two of them may carry a light. *)
NextFrame ==
    \/ Send({"a", "b"}, {CreateLightCmd}, {0})
    \/ Send(Paths, FrameQueues, {0})
    \/ Draw
    \/ Idle

SpecFrame == InitGeometry /\ [][NextFrame]_vars

\* generic uniforms: a name of the mesh's own, or one of two new ones
UniformNames == {Str("opacity"), Str("u_x"), Str("u_y")}
UniformInstrs == {UniformsCmd(name, v) : name \in UniformNames, v \in {Num(0), Num(2)}}

(* One node that is sent queues of generic uniforms.                       *)
NextUniforms ==
    \/ Send({"a"}, Streams(UniformInstrs, MaxQueue), {0})
    \/ Draw
    \/ Idle

SpecUniforms == InitGeometry /\ [][NextUniforms]_vars

\* base colours and materials, one instruction a call or a material-input
\* and a uniform-input in either order, and the light instructions
Material == Mat(3)
Literals == {Vector1, Vector2, Half}
ColorInstrs ==
    {UniformInputCmd(Str("baseColor"), v) : v \in Literals}
    \cup {MaterialInputCmd(Str("baseColor"), Material)}
InputQueues ==
    ColorInstrs
    \cup {MaterialInputCmd(Str("baseColor"), Material) \o UniformInputCmd(Str("baseColor"), v) :
            v \in Literals}
    \cup {UniformInputCmd(Str("baseColor"), v) \o MaterialInputCmd(Str("baseColor"), Material) :
            v \in Literals}
    \cup {CreateLightCmd, LightPositionCmd(Transform1)}
    \cup {LightColorCmd(c) : c \in {Vector1, Vector2}}

(* One node whose base colour and light are set from the arrays the        *)
(* producer holds and sends again.                                         *)
NextInputs ==
    \/ Send({"a"}, InputQueues, {0})
    \/ Draw
    \/ Idle

SpecInputs == Init /\ [][NextInputs]_vars

\* an instruction of another subsystem, and one no subsystem knows
Foreign == <<Str("WITH")>>
Unknown == <<Str("FRAME_END")>>

\* instructions of every kind; the generic uniform has arguments that read
\* like instructions
StreamInstrs ==
    {CreateLightCmd, LightPositionCmd(Transform1),
     UniformInputCmd(Str("baseColor"), Vector1),
     UniformsCmd(Str("WITH"), Str("GL_CREATE_LIGHT")),
     SetGeometryCmd(Num(1), TRIANGLES, Bool(FALSE)),
     BufferDataCmd(Num(1), Str("pos"), Data(6), Num(3)),
     Foreign, Unknown}

(* One node that is sent queues of mixed instructions, some of them for    *)
(* another subsystem or unknown.                                           *)
NextStream ==
    \/ Send({"a"}, Streams(StreamInstrs, MaxStream), {0})
    \/ Draw
    \/ Idle

SpecStream == Init /\ [][NextStream]_vars

\* one instruction of each supported kind, a generic uniform of a second
\* name, and one whose arguments read like instructions
ArityInstrs ==
    {CreateLightCmd, LightPositionCmd(Transform1), LightColorCmd(Vector2),
     MaterialInputCmd(Str("baseColor"), Material),
     UniformInputCmd(Str("baseColor"), Vector1),
     UniformsCmd(Str("WITH"), Str("GL_CREATE_LIGHT")),
     UniformsCmd(Str("u_x"), Num(2)),
     SetGeometryCmd(Num(1), TRIANGLES, Bool(FALSE)),
     BufferDataCmd(Num(1), Str("pos"), Data(6), Num(3))}

(* One node that is sent queues of supported instructions of every kind.   *)
NextArity ==
    \/ Send({"a"}, Streams(ArityInstrs, MaxPair), {0})
    \/ Draw
    \/ Idle

SpecArity == Init /\ [][NextArity]_vars

\* lights and one geometry, and instructions that are foreign or unknown
LoopInstrs ==
    {CreateLightCmd,
     SetGeometryCmd(Num(1), TRIANGLES, Bool(FALSE)),
     BufferDataCmd(Num(1), Str("pos"), Data(6), Num(3)),
     Foreign, Unknown}

(* Two nodes that are sent queues of several instructions, and frames that *)
(* visit their lights and meshes.                                          *)
NextLoops ==
    \/ Send({"a", "b"}, Streams(LoopInstrs, MaxStream), {0})
    \/ Draw
    \/ Idle

SpecLoops == InitGeometry /\ [][NextLoops]_vars

\* a base colour and a generic uniform from the same array, a material, a light
SharedQueues ==
    {UniformInputCmd(Str("baseColor"), Vector1),
     UniformsCmd(Str("u_x"), Vector1),
     MaterialInputCmd(Str("baseColor"), Material),
     CreateLightCmd, LightColorCmd(Vector1)}

(* Two nodes that are given the same array of the producer.                *)
NextShared ==
    \/ Send({"a", "b"}, SharedQueues, {0})
    \/ Draw
    \/ Idle

SpecShared == Init /\ [][NextShared]_vars

(* Every stream above.                                                     *)
Next ==
    \/ NextBind
    \/ NextOffsets
    \/ NextFrame
    \/ NextUniforms
    \/ NextInputs
    \/ NextStream
    \/ NextArity
    \/ NextLoops
    \/ NextShared

Spec == Init /\ [][Next]_vars

-----------------------------------------------------------------------------
(* what a drawBuffers call issued *)

Only(cs, fns) == SelectSeq(cs, LAMBDA c : c.fn \in fns)
DrawCalls(c) == Only(c.issued, {"drawElements", "drawArrays"})
PointerCalls(c) == Only(c.issued, {"vertexAttribPointer"})

\* the positions in Buffer Set S of the non-index attributes the program has
Positions(S) == [i \in 1..Len(S.keys) |-> i]
LocatedAt(S) ==
    SelectSeq(Positions(S),
              LAMBDA i : S.keys[i] # INDICES /\ attributeLocations[S.keys[i]] # -1)

\* "indices" is the only attribute of S with a nonzero element count
IndicesOnly(S) ==
    LET j == IndexOf(S.keys, INDICES)
    IN  /\ j # -1
        /\ S.length[j + 1] > 0
        /\ \A i \in 1..Len(S.keys) : i # j + 1 => S.length[i] = 0

\* C1: drawBuffers on a Buffer Set whose only attribute with a nonzero element
\* count is "indices" (count n, stored offset o) issues exactly one draw call,
\* drawElements with count n and byte offset 2 * o, also when the set has no
\* other attribute at all.
C1_IndexedDrawOnly ==
    \A n \in 1..Len(calls) :
        LET c == calls[n]
            S == c.buffers
            j == IndexOf(S.keys, INDICES)
        IN  IndicesOnly(S) =>
              DrawCalls(c) = <<DrawElements(c.mode, S.length[j + 1], 2 * S.offset[j + 1])>>

\* C2: drawBuffers on a Buffer Set without "indices", all of whose attributes
\* the program has, issues exactly one drawArrays call from 0 when any attribute
\* has a nonzero element count, wherever that attribute stands in the set, and
\* no draw call when every count is zero.
C2_ArraysDrawForAnyCount ==
    \A n \in 1..Len(calls) :
        LET c == calls[n]
            S == c.buffers
        IN  (IndexOf(S.keys, INDICES) = -1 /\ Len(LocatedAt(S)) = Len(S.keys)) =>
              IF \E i \in 1..Len(S.keys) : S.length[i] # 0
              THEN /\ Len(DrawCalls(c)) = 1
                   /\ DrawCalls(c)[1].fn = "drawArrays"
                   /\ DrawCalls(c)[1].off = 0
              ELSE DrawCalls(c) = <<>>

\* the pointer calls a full binding of S makes: one for each located attribute
AllPointers(S) ==
    [k \in 1..Len(LocatedAt(S)) |->
        LET i == LocatedAt(S)[k]
        IN  VertexAttribPointer(attributeLocations[S.keys[i]], S.spacing[i],
                                4 * S.offset[i])]

\* C3: a drawBuffers call for geometry id g issues no vertexAttribPointer call
\* when the drawBuffers call before it was for g as well, whether or not that
\* call drew, and one per located non-index attribute otherwise.
C3_PointerSkip ==
    \A n \in 1..Len(calls) :
        LET c == calls[n]
        IN  PointerCalls(c) = IF c.prev = c.id THEN <<>> ELSE AllPointers(c.buffers)

\* a redraw of the geometry drawn last, which has located attributes but drew
\* nothing the time before
C3_Witness ==
    \E n \in 1..Len(calls) :
        /\ calls[n].prev = calls[n].id
        /\ LocatedAt(calls[n].buffers) # <<>>
        /\ DrawCalls(calls[n]) = <<>>
        /\ PointerCalls(calls[n]) = <<>>

Enabled(cache, a) == Has(cache.enabledAttributes, a) /\ cache.enabledAttributes.at[a]

\* C4: after a drawBuffers call on Buffer Set S the cache marks as enabled
\* exactly the non-index attributes of S that have a shader location; every
\* attribute enabled before and absent from S is marked disabled; "indices" is
\* never marked enabled.
C4_EnabledAttributes ==
    \A n \in 1..Len(calls) :
        LET c == calls[n]
            S == c.buffers
        IN  /\ \A k \in 1..Len(LocatedAt(S)) : Enabled(c.after, S.keys[LocatedAt(S)[k]])
            /\ \A a \in DOMAIN c.after.enabledAttributes.at :
                 Enabled(c.after, a) =>
                    /\ a # INDICES
                    /\ IndexOf(S.keys, a) # -1
                    /\ attributeLocations[a] # -1
            /\ \A a \in DOMAIN c.before.enabledAttributes.at :
                 (Enabled(c.before, a) /\ IndexOf(S.keys, a) = -1) =>
                    /\ Has(c.after.enabledAttributes, a)
                    /\ ~c.after.enabledAttributes.at[a]

\* a call that found an attribute enabled that its Buffer Set lacks, and enabled
\* one of its own
C4_Witness ==
    \E n \in 1..Len(calls) :
        /\ \E a \in DOMAIN calls[n].before.enabledAttributes.at :
             Enabled(calls[n].before, a) /\ IndexOf(calls[n].buffers.keys, a) = -1
        /\ \E a \in DOMAIN calls[n].after.enabledAttributes.at : Enabled(calls[n].after, a)

\* the cache says of the device what the device calls have made true
Mirrors(cache, dev) ==
    /\ \A a \in VertexAttributes : Enabled(cache, a) <=> Location(a) \in dev.enabled
    /\ \A a \in DOMAIN cache.enabledAttributes.at : a \in VertexAttributes
    /\ cache.boundArrayBuffer = dev.ARRAY_BUFFER
    /\ cache.boundElementBuffer = dev.ELEMENT_ARRAY_BUFFER

\* an enable of an enabled attribute, a bind of the buffer bound to its target
Redundant(dev, c) ==
    \/ c.fn = "enableVertexAttribArray" /\ c.loc \in dev.enabled
    \/ c.fn = "bindBuffer" /\ Target(c.buf) = "ARRAY_BUFFER" /\ dev.ARRAY_BUFFER = c.buf
    \/ c.fn = "bindBuffer" /\ Target(c.buf) = "ELEMENT_ARRAY_BUFFER"
         /\ dev.ELEMENT_ARRAY_BUFFER = c.buf

RECURSIVE NoneRedundant(_, _)
NoneRedundant(dev, cs) ==
    \/ cs = <<>>
    \/ ~Redundant(dev, Head(cs)) /\ NoneRedundant(Perform(dev, Head(cs)), Tail(cs))

\* C5: in every state reached by receive and draw calls the cache equals the
\* device state the issued calls produced (enabled flags, vertex buffer binding,
\* index buffer binding), before and after each drawBuffers call; no enable is
\* issued for an enabled attribute and no bind for a buffer bound to its target.
C5_CacheMirrorsDevice ==
    /\ Mirrors(state, gl)
    /\ \A n \in 1..Len(calls) :
         /\ Mirrors(calls[n].before, calls[n].device)
         /\ Mirrors(calls[n].after, PerformAll(calls[n].device, calls[n].issued))
         /\ NoneRedundant(calls[n].device, calls[n].issued)

\* an indexed draw that found its attribute enabled and both buffers bound
C5_Witness ==
    \E n \in 1..Len(calls) :
        /\ LocatedAt(calls[n].buffers) # <<>>
        /\ Only(calls[n].issued, {"drawElements"}) # <<>>
        /\ Only(calls[n].issued, {"enableVertexAttribArray", "bindBuffer"}) = <<>>

-----------------------------------------------------------------------------
(* what a frame issued *)

\* the position of node n in the iteration order of the Node Registry
Index(n) == IndexOf(meshRegistry.keys, n) + 1
\* the geometry of node n has a Buffer Set
Resolved(n) == meshRegistry.at[n].geometry \in DOMAIN bufferRegistry

\* the uploads that open a frame: position and color of each light, in the
\* order of the Light Registry, then the perspective
Opening ==
    [k \in 1..(2 * Len(lightRegistry.keys) + 1) |->
        IF k = 2 * Len(lightRegistry.keys) + 1
        THEN SetUniforms(<<Str("perspective")>>, <<ProjectionRef>>)
        ELSE IF k % 2 = 1
        THEN SetUniforms(<<Str("u_LightPosition")>>,
                         <<lightRegistry.at[lightRegistry.keys[(k + 1) \div 2]].position>>)
        ELSE SetUniforms(<<Str("u_LightColor")>>,
                         <<lightRegistry.at[lightRegistry.keys[k \div 2]].color>>)]

\* what the first n nodes of the registry contribute to the log: for each its
\* uniform upload and the device calls of its drawBuffers call
RECURSIVE Emitted(_)
Emitted(n) ==
    IF n = 0 THEN <<>>
    ELSE Emitted(n - 1)
         \o <<SetUniforms(meshRegistry.at[meshRegistry.keys[n]].uniformKeys,
                          meshRegistry.at[meshRegistry.keys[n]].uniformValues)>>
         \o calls[n].issued

\* C6: when a frame reaches a node whose geometry has no Buffer Set, the frame
\* has uploaded position and color of every light and the perspective, then
\* the uniforms and device calls of the nodes before that node and nothing
\* else: nothing for that node or a later one; the device and the cache are as
\* the calls for the earlier nodes left them.
C6_AbortStopsFrame ==
    (ran.handler = "draw" /\ abortedAt # "") =>
        /\ Len(calls) = Index(abortedAt) - 1
        /\ \A n \in 1..Len(calls) : calls[n].node = meshRegistry.keys[n]
        /\ log = Opening \o Emitted(Len(calls))
        /\ calls # <<>> =>
              /\ state = calls[Len(calls)].after
              /\ gl = PerformAll(calls[Len(calls)].device, calls[Len(calls)].issued)

\* a frame with a light that drew the first node, stopped at the second and
\* left out a third whose geometry has a Buffer Set
C6_Witness ==
    /\ ran.handler = "draw"
    /\ abortedAt # ""
    /\ lightRegistry.keys # <<>>
    /\ Index(abortedAt) = 2
    /\ DrawCalls(calls[1]) # <<>>
    /\ Len(meshRegistry.keys) = 3
    /\ Resolved(meshRegistry.keys[3])

\* C7: draw leaves the Node Registry and the Light Registry as they are; and
\* when the frame before stopped at node n, geometry was not reassigned since
\* and n's geometry has a Buffer Set by now, the frame processes n and its loop
\* goes on past n.
C7_AbortIsPerFrame ==
    [][(pc = "idle" /\ ran'.handler = "draw") =>
          /\ meshRegistry' = meshRegistry
          /\ lightRegistry' = lightRegistry
          /\ heap' = heap
          /\ (abortedAt # "" /\ Resolved(abortedAt)) =>
                /\ \E k \in 1..Len(calls') : calls'[k].node = abortedAt
                /\ ran'.reached > Index(abortedAt)]_vars

\* a frame that processed the node the frame before had stopped at, and a
\* node after it
C7_Witness ==
    /\ ran.handler = "draw"
    /\ ran.resumes # ""
    /\ \E k \in 1..Len(calls) : calls[k].node = ran.resumes /\ k < Len(calls)

-----------------------------------------------------------------------------
(* what a receive call left in the node *)

\* q is made of generic-uniform instructions only
GenericUniforms(q) ==
    /\ Len(q) % 3 = 0
    /\ \A i \in 1..(Len(q) \div 3) : q[3 * i - 2] = Str("GL_UNIFORMS")
\* the names and values q writes, in order
Written(q) == [i \in 1..(Len(q) \div 3) |-> [name |-> q[3 * i - 1], value |-> q[3 * i]]]
\* the keys a node is created with
InitialKeys ==
    <<Str("opacity"), Str("transform"), Str("size"), Str("origin"), Str("baseColor")>>
Last(S) == CHOOSE k \in S : \A h \in S : h <= k

\* C8: after a queue of generic-uniform instructions on a fresh node the keys
\* are the five initial names and the names written, each once and in the order
\* in which they were first seen, and the value at each key is the one written
\* last for it (the initial value for a key never written).
C8_UniformsFirstSeenLastWritten ==
    (ran.handler = "receive" /\ ran.fresh /\ GenericUniforms(ran.sent)) =>
        LET mesh == meshRegistry.at[ran.path]
            keys == mesh.uniformKeys
            w    == Written(ran.sent)
            seen == InitialKeys \o [i \in 1..Len(w) |-> w[i].name]
        IN  /\ Len(mesh.uniformValues) = Len(keys)
            /\ \A i, j \in 1..Len(keys) : i # j => keys[i] # keys[j]
            /\ {keys[i] : i \in 1..Len(keys)} = {seen[i] : i \in 1..Len(seen)}
            /\ \A i, j \in 1..Len(keys) :
                  i < j => IndexOf(seen, keys[i]) < IndexOf(seen, keys[j])
            /\ \A i \in 1..Len(keys) :
                  LET writes == {k \in 1..Len(w) : w[k].name = keys[i]}
                  IN  mesh.uniformValues[i] =
                        IF writes = {} THEN NewMesh(ran.path).uniformValues[i]
                        ELSE w[Last(writes)].value

\* a fresh node sent a new name, another new name, and the first name again
\* with another value
C8_Witness ==
    /\ ran.handler = "receive" /\ ran.fresh /\ GenericUniforms(ran.sent)
    /\ Len(ran.sent) = 9
    /\ IndexOf(InitialKeys, ran.sent[2]) = -1
    /\ IndexOf(InitialKeys, ran.sent[5]) = -1
    /\ ran.sent[5] # ran.sent[2]
    /\ ran.sent[8] = ran.sent[2]
    /\ ran.sent[9] # ran.sent[3]
    /\ meshRegistry.at[ran.path].uniformKeys = InitialKeys \o <<ran.sent[2], ran.sent[5]>>
    /\ meshRegistry.at[ran.path].uniformValues[6] = ran.sent[9]

\* q is a material-input followed by a uniform-input
MaterialThenUniform(q) ==
    /\ Len(q) = 6
    /\ q[1] = Str("MATERIAL_INPUT")
    /\ q[4] = Str("UNIFORM_INPUT")

\* C9: after a material-input followed by a uniform-input on a node, slot 4 of
\* the node's uniformValues is the literal of the uniform-input, and neither it
\* nor a component of it is the sentinel of the material.
C9_LiteralAfterMaterial ==
    (ran.handler = "receive" /\ ~ran.threw /\ MaterialThenUniform(ran.sent)) =>
        LET literal  == ran.sent[6]
            sentinel == Sentinel(ran.sent[3])
        IN  /\ meshRegistry.at[ran.path].uniformValues[5] = literal
            /\ literal # sentinel
            /\ literal.k = "ref" =>
                  \A i \in 1..Len(heap[literal]) : heap[literal][i] # sentinel

\* q is one light instruction with an array of n elements as its argument
LightInstruction(q, command, n) ==
    /\ Len(q) = 2
    /\ q[1] = Str(command)
    /\ q[2] \in DOMAIN heap
    /\ Len(heap[q[2]]) = n

\* C10: on a node that has a light, a light-position instruction with a
\* transform of 16 elements sets the light's position to elements 12, 13, 14 of
\* it, and a light-color instruction sets the light's color to elements 0, 1, 2
\* of its argument; nothing else of the Light Registry, nothing of the Node
\* Registry and no stored array changes.
C10_LightInstructions ==
    [][(pc = "idle" /\ ran'.handler = "receive" /\ Has(lightRegistry, ran'.path)) =>
          LET p == ran'.path
              q == ran'.sent
          IN  /\ LightInstruction(q, "GL_LIGHT_POSITION", 16) =>
                    /\ lightRegistry' =
                          [lightRegistry EXCEPT !.at[p].position =
                              <<heap[q[2]][13], heap[q[2]][14], heap[q[2]][15]>>]
                    /\ meshRegistry' = meshRegistry
                    /\ heap' = heap
              /\ LightInstruction(q, "GL_LIGHT_COLOR", 3) =>
                    /\ lightRegistry' =
                          [lightRegistry EXCEPT !.at[p].color =
                              <<heap[q[2]][1], heap[q[2]][2], heap[q[2]][3]>>]
                    /\ meshRegistry' = meshRegistry
                    /\ heap' = heap]_vars

\* a light that was moved to (7, 8, 9) and has just been given a color
C10_Witness ==
    /\ ran.handler = "receive" /\ ~ran.threw
    /\ LightInstruction(ran.sent, "GL_LIGHT_COLOR", 3)
    /\ Has(lightRegistry, ran.path)
    /\ lightRegistry.at[ran.path].position = <<Num(7), Num(8), Num(9)>>
    /\ lightRegistry.at[ran.path].color = heap[ran.sent[2]]
    /\ lightRegistry.at[ran.path].color # NewLight.color

-----------------------------------------------------------------------------
(* how receive reads a queue *)

\* the number of arguments that follow an instruction in the stream
Arity(command) ==
    CASE command = Str("GL_CREATE_LIGHT")   -> 0
      [] command = Str("GL_LIGHT_POSITION") -> 1
      [] command = Str("GL_LIGHT_COLOR")    -> 1
      [] command = Str("MATERIAL_INPUT")    -> 2
      [] command = Str("UNIFORM_INPUT")     -> 2
      [] command = Str("GL_UNIFORMS")       -> 2
      [] command = Str("GL_SET_GEOMETRY")   -> 3
      [] command = Str("GL_BUFFER_DATA")    -> 4
      [] OTHER -> 0

\* the positions in q, from i on, at which an instruction stands, up to and
\* with the first foreign one
RECURSIVE Heads(_, _)
Heads(q, i) ==
    IF i > Len(q) THEN <<>>
    ELSE IF q[i] = Str("WITH") THEN <<i>>
    ELSE <<i>> \o Heads(q, i + 1 + Arity(q[i]))

\* the position of the first foreign instruction of q, 0 when it has none
ForeignAt(q) ==
    LET heads == Heads(q, 1)
    IN  IF heads # <<>> /\ q[heads[Len(heads)]] = Str("WITH")
        THEN heads[Len(heads)]
        ELSE 0

\* the instructions of q before the first foreign one
Own(q) == IF ForeignAt(q) = 0 THEN q ELSE SubSeq(q, 1, ForeignAt(q) - 1)

\* the registry places the data of each of n allocations at offset 0
AtZero(n) == [i \in 1..n |-> 0]

\* C11: a receive call that returns leaves the queue empty, or, when the queue
\* has a foreign instruction, headed by the first such with every element after
\* it in place; the renderer is as the instructions before the foreign one
\* alone would have left it.
C11_StopsAtForeign ==
    [][(pc = "idle" /\ ran'.handler = "receive" /\ ~ran'.threw) =>
          LET p   == ran'.path
              q   == ran'.sent
              f   == ForeignAt(q)
              own == Interpret(Enter(p, Own(q)), p, AtZero(Len(q)))
          IN  /\ commands' = IF f = 0 THEN <<>> ELSE SubSeq(q, f, Len(q))
              /\ meshRegistry' = own.meshRegistry
              /\ lightRegistry' = own.lightRegistry
              /\ bufferRegistry' = own.bufferRegistry
              /\ heap' = own.heap
              /\ log' = own.log
              /\ UNCHANGED <<state, gl, attributeLocations>>]_vars

\* a call that applied an instruction, met a foreign one and left it with the
\* instruction after it in the queue
C11_Witness ==
    /\ ran.handler = "receive" /\ ~ran.threw
    /\ ForeignAt(ran.sent) > 1
    /\ ForeignAt(ran.sent) < Len(ran.sent)
    /\ ran.sent[1] = Str("GL_CREATE_LIGHT")
    /\ Has(lightRegistry, ran.path)
    /\ commands = SubSeq(ran.sent, ForeignAt(ran.sent), Len(ran.sent))
    /\ commands[2] = Str("GL_SET_GEOMETRY")
    /\ meshRegistry.at[ran.path].geometry = Null

\* the positions of the instructions named command that a call on q applies
HeadsOf(q, command) ==
    SelectSeq(Heads(q, 1), LAMBDA i : q[i] = Str(command))

\* C12: a receive call that returns makes one pass of its loop for each
\* instruction of the stream, counted with the fixed number of arguments of
\* each (0 for create-light, 1 for the light instructions, 2 for the inputs and
\* the generic uniform, 3 for set-geometry, 4 for buffer-data); set-geometry
\* assigns its arguments in the order geometry, draw mode, dynamic; buffer-data
\* passes its four in the order id, name, data, spacing; a light is created only
\* by a create-light in instruction position, never by an argument.
C12_FixedArity ==
    (ran.handler = "receive" /\ ~ran.threw) =>
        LET q    == ran.sent
            mesh == meshRegistry.at[ran.path]
            sg   == HeadsOf(q, "GL_SET_GEOMETRY")
            bd   == HeadsOf(q, "GL_BUFFER_DATA")
            gu   == HeadsOf(q, "GL_UNIFORMS")
            ui   == HeadsOf(q, "UNIFORM_INPUT")
            lp   == HeadsOf(q, "GL_LIGHT_POSITION")
            cl   == HeadsOf(q, "GL_CREATE_LIGHT")
            lc   == HeadsOf(q, "GL_LIGHT_COLOR")
            mi   == HeadsOf(q, "MATERIAL_INPUT")
            registered == Only(log, {"registerMaterial"})
            made == Only(log, {"allocate"})
        IN  /\ ran.steps = Len(Heads(q, 1))
            /\ sg # <<>> =>
                  /\ mesh.geometry = q[sg[Len(sg)] + 1]
                  /\ mesh.drawType = q[sg[Len(sg)] + 2]
                  /\ mesh.dynamic  = q[sg[Len(sg)] + 3]
            /\ Len(made) = Len(bd)
            /\ \A k \in 1..Len(bd) :
                  SubSeq(made[k].keys, 1, 4) = SubSeq(q, bd[k] + 1, bd[k] + 4)
            /\ \A k \in 1..Len(gu) :
                  /\ IndexOf(mesh.uniformKeys, q[gu[k] + 1]) # -1
                  /\ k = Len(gu) =>
                        mesh.uniformValues[IndexOf(mesh.uniformKeys, q[gu[k] + 1]) + 1]
                          = q[gu[k] + 2]
            /\ ui # <<>> => mesh.uniformValues[5] = q[ui[Len(ui)] + 2]
            /\ (lp # <<>> /\ \A k \in 1..Len(cl) : cl[k] < lp[Len(lp)]) =>
                  lightRegistry.at[ran.path].position =
                      <<heap[q[lp[Len(lp)] + 1]][13], heap[q[lp[Len(lp)] + 1]][14],
                        heap[q[lp[Len(lp)] + 1]][15]>>
            /\ (lc # <<>> /\ \A k \in 1..Len(cl) : cl[k] < lc[Len(lc)]) =>
                  lightRegistry.at[ran.path].color =
                      SubSeq(heap[q[lc[Len(lc)] + 1]], 1, 3)
            /\ Len(registered) = Len(mi)
            /\ \A k \in 1..Len(mi) :
                  registered[k].keys \o registered[k].vals = SubSeq(q, mi[k] + 1, mi[k] + 2)
            /\ ran.fresh =>
                  (Has(lightRegistry, ran.path) <=> cl # <<>>)

\* a fresh node sent a generic uniform whose name and value read like
\* instructions, then a set-geometry: two passes, no light, nothing left
C12_Witness ==
    /\ ran.handler = "receive" /\ ~ran.threw /\ ran.fresh
    /\ ran.sent = UniformsCmd(Str("WITH"), Str("GL_CREATE_LIGHT"))
                     \o SetGeometryCmd(Num(1), TRIANGLES, Bool(FALSE))
    /\ ran.steps = 2
    /\ commands = <<>>
    /\ ~Has(lightRegistry, ran.path)
    /\ meshRegistry.at[ran.path].dynamic = Bool(FALSE)

\* the instructions receive has a case for
Recognized(command) ==
    command \in {Str("GL_CREATE_LIGHT"), Str("GL_LIGHT_POSITION"), Str("GL_LIGHT_COLOR"),
                 Str("MATERIAL_INPUT"), Str("UNIFORM_INPUT"), Str("GL_SET_GEOMETRY"),
                 Str("GL_UNIFORMS"), Str("GL_BUFFER_DATA"), Str("WITH")}

\* q from position i on without the unrecognized instructions that stand
\* before its first foreign one
RECURSIVE Known(_, _)
Known(q, i) ==
    IF i > Len(q) THEN <<>>
    ELSE IF q[i] = Str("WITH") THEN SubSeq(q, i, Len(q))
    ELSE IF Recognized(q[i])
    THEN SubSeq(q, i, i + Arity(q[i])) \o Known(q, i + 1 + Arity(q[i]))
    ELSE Known(q, i + 1)

\* the number of unrecognized instructions a call on q reads
Unrecognized(q) ==
    Len(SelectSeq(Heads(q, 1), LAMBDA i : ~Recognized(q[i])))

\* C13: a receive call on a queue with unrecognized instructions ends as the
\* call on the queue without them would: no exception where that call has
\* none, the same registries, stored arrays, collaborator calls and remaining
\* queue, the Device Binding Cache untouched, and one more pass of the loop for
\* each unrecognized instruction.
C13_UnknownIgnored ==
    [][(pc = "idle" /\ ran'.handler = "receive") =>
          LET p     == ran'.path
              q     == ran'.sent
              known == Interpret(Enter(p, Known(q, 1)), p, AtZero(Len(q)))
          IN  known.status # "threw" =>
                /\ ~ran'.threw
                /\ ran'.steps = known.steps + Unrecognized(q)
                /\ commands' = known.commands
                /\ meshRegistry' = known.meshRegistry
                /\ lightRegistry' = known.lightRegistry
                /\ bufferRegistry' = known.bufferRegistry
                /\ heap' = known.heap
                /\ log' = known.log
                /\ UNCHANGED <<state, gl, attributeLocations>>]_vars

\* a call that read an unrecognized instruction between a create-light and a
\* set-geometry and applied both
C13_Witness ==
    /\ ran.handler = "receive" /\ ~ran.threw
    /\ ran.sent = CreateLightCmd \o Unknown \o SetGeometryCmd(Num(1), TRIANGLES, Bool(FALSE))
    /\ ran.steps = 3
    /\ commands = <<>>
    /\ lightRegistry.at[ran.path] = NewLight
    /\ meshRegistry.at[ran.path].geometry = Num(1)

\* q is a uniform-input followed by a material-input
UniformThenMaterial(q) ==
    /\ Len(q) = 6
    /\ q[1] = Str("UNIFORM_INPUT")
    /\ q[4] = Str("MATERIAL_INPUT")

\* C14: a uniform-input followed by a material-input with material m on a node
\* completes and leaves the sentinel -m in slot 4 of the node's uniformValues,
\* as the slot's value or as the first component of the vector in it, whether
\* the literal was a scalar or a vector.
C14_MaterialAfterLiteral ==
    (ran.handler = "receive" /\ UniformThenMaterial(ran.sent)) =>
        LET slot     == meshRegistry.at[ran.path].uniformValues[5]
            sentinel == Sentinel(ran.sent[6])
        IN  /\ ~ran.threw
            /\ slot = sentinel \/ Elem(heap, slot, 0) = sentinel

\* s is the beginning of t
IsPrefix(s, t) == Len(s) <= Len(t) /\ SubSeq(t, 1, Len(s)) = s

\* C15: after every step each node's uniformKeys and uniformValues have equal
\* length, uniformKeys has no name twice and begins with opacity, transform,
\* size, origin, baseColor, and the uniformKeys the node had before the step
\* are the beginning of those it has after it.
C15_KeysAppendOnly ==
    [][\A p \in DOMAIN meshRegistry'.at :
          LET keys == meshRegistry'.at[p].uniformKeys
          IN  /\ Len(meshRegistry'.at[p].uniformValues) = Len(keys)
              /\ \A i, j \in 1..Len(keys) : i # j => keys[i] # keys[j]
              /\ IsPrefix(InitialKeys, keys)
              /\ p \in DOMAIN meshRegistry.at =>
                    IsPrefix(meshRegistry.at[p].uniformKeys, keys)]_vars

\* a node with two names of its own that was just sent the first of them
\* again, and a base colour
C15_Witness ==
    /\ ran.handler = "receive" /\ ~ran.fresh /\ ~ran.threw
    /\ Len(meshRegistry.at[ran.path].uniformKeys) = 7
    /\ Len(ran.sent) = 6
    /\ ran.sent[1] = Str("GL_UNIFORMS")
    /\ ran.sent[2] = meshRegistry.at[ran.path].uniformKeys[6]
    /\ ran.sent[4] = Str("UNIFORM_INPUT")
    /\ meshRegistry.at[ran.path].uniformValues[5] = ran.sent[6]

-----------------------------------------------------------------------------
(* how long the handlers run *)

\* C16: a receive call ends, by return or exception, after at most as many
\* passes of its loop as the queue it was given has elements; a frame ends
\* after two uploads for each light and one for the perspective, and at most
\* one drawBuffers call for each node, no node twice.
C16_HandlersTerminate ==
    /\ ran.handler = "receive" => ran.steps <= Len(ran.sent)
    /\ ran.handler = "draw" =>
          /\ ran.reached <= Len(meshRegistry.keys) + 1
          /\ Len(calls) <= Len(meshRegistry.keys)
          /\ \A i, j \in 1..Len(calls) : i # j => calls[i].node # calls[j].node
          /\ Len(Only(log, {"setUniforms"})) =
                2 * Len(lightRegistry.keys) + 1 + Len(calls)

\* a call that read each element of its queue in a pass of its own, the last
\* of them a foreign instruction that it left in the queue
C16_Witness ==
    /\ ran.handler = "receive" /\ ~ran.threw
    /\ Len(ran.sent) = MaxStream
    /\ ran.steps = Len(ran.sent)
    /\ commands = Foreign

-----------------------------------------------------------------------------
(* what the device reads when it draws *)

\* C17: when a drawBuffers call for geometry g issues a draw call, each
\* attribute array enabled on the device reads from the buffer, with the
\* spacing and the byte offset, that g's Buffer Set holds for the attribute at
\* that time.
C17_PointersCurrent ==
    \A n \in 1..Len(calls) :
        LET c   == calls[n]
            S   == c.buffers
            dev == PerformAll(c.device, c.issued)
        IN  DrawCalls(c) # <<>> =>
              \A k \in 1..Len(LocatedAt(S)) :
                  LET i   == LocatedAt(S)[k]
                      loc == attributeLocations[S.keys[i]]
                  IN  /\ loc \in dev.enabled
                      /\ loc \in DOMAIN dev.pointers
                      /\ dev.pointers[loc] = [buf  |-> S.values[i],
                                              size |-> S.spacing[i],
                                              off  |-> 4 * S.offset[i]]

\* node n has a light and was never assigned a geometry
LightOnly(n) == meshRegistry.at[n].geometry = Null /\ Has(lightRegistry, n)

\* C18: a frame in which the only nodes without a Buffer Set are nodes that
\* carry a light and have no geometry makes a drawBuffers call for every node
\* whose geometry has a Buffer Set.
C18_LightOnlyNodesPassed ==
    (/\ ran.handler = "draw"
     /\ \A n \in DOMAIN meshRegistry.at : ~Resolved(n) => LightOnly(n)) =>
        \A n \in DOMAIN meshRegistry.at :
            Resolved(n) => \E k \in 1..Len(calls) : calls[k].node = n

\* C19: a receive call on a queue of supported instructions with arguments of
\* the right shape, none of them foreign, ends without an exception and with
\* the queue processed to its end.
C19_NoException ==
    (ran.handler = "receive" /\ ForeignAt(ran.sent) = 0) =>
        /\ ~ran.threw
        /\ commands = <<>>

-----------------------------------------------------------------------------
(* what a receive call for one node does to another *)

\* the arrays a mesh holds in its uniformValues
Held(mesh) ==
    {mesh.uniformValues[i] : i \in 1..Len(mesh.uniformValues)} \cap DOMAIN heap

\* C20: a receive call for a node leaves every other node as it was: its
\* uniformKeys, its uniformValues and the contents of the arrays among them,
\* its geometry, draw type and dynamic flag, and its light.
C20_NodesIsolated ==
    [][(pc = "idle" /\ ran'.handler = "receive") =>
          \A B \in DOMAIN meshRegistry.at \ {ran'.path} :
              /\ meshRegistry'.at[B] = meshRegistry.at[B]
              /\ \A v \in Held(meshRegistry.at[B]) : heap'[v] = heap[v]
              /\ Has(lightRegistry', B) = Has(lightRegistry, B)
              /\ Has(lightRegistry, B) => lightRegistry'.at[B] = lightRegistry.at[B]]_vars

====
